---- MODULE Spec2Model ----
(***************************************************************************)
(* Model of the Coinbase Pro public REST client (src/src/lib.rs):          *)
(* CoinbaseClientBuilder (setters and build), the endpoint methods that    *)
(* build query parameters, and CoinbasePublicClient::get_json, the single  *)
(* choke point that assembles the URL, waits on the governor rate limiter, *)
(* sends the GET request and reads the body, followed by deserialize.      *)
(***************************************************************************)
EXTENDS Integers, Sequences, FiniteSets, TLC

(***************************************************************************)
(* Bounds of the model.                                                    *)
(***************************************************************************)
\* number of concurrent endpoint calls made through one client
MaxCalls == 2
\* number of setter calls made on one builder before build
MaxSetterCalls == 2
\* resolution of the limiter clock: ticks per second (governor counts
\* nanoseconds; Duration / u32 is an integer division there as here)
TicksPerSecond == 6

Calls == 1..MaxCalls
\* The ticks since build are counted up to MaxTime.  A bucket holds at least
\* one cell and is refilled at least once a second, so by MaxTime even the
\* smallest and slowest bucket has held a cell for each of the MaxCalls calls.
MaxTime == (MaxCalls - 1) * TicksPerSecond

(***************************************************************************)
(* Option<T>: None is the empty tuple, Some(v) the one-element tuple.      *)
(***************************************************************************)
None == <<>>
Some(v) == <<v>>
unwrap(o) == o[1]
unwrap_or(o, d) == IF o = None THEN d ELSE o[1]

(***************************************************************************)
(* Default Constants (lib.rs 23-26).                                       *)
(***************************************************************************)
COINBASE_API_URL == "https://api.pro.coinbase.com"
DEFAULT_REQUEST_TIMEOUT == 30
DEFAULT_RATE_LIMIT == 3
DEFAULT_BURST_SIZE == 6

(***************************************************************************)
(* governor::Quota as lib.rs 321-323 uses it.  Quota::per_second(n)        *)
(* replenishes one cell every 1s / n and takes n as the maximum burst;     *)
(* allow_burst replaces the maximum burst only.                            *)
(***************************************************************************)
per_second(max_burst) ==
    [max_burst |-> max_burst, replenish_1_per |-> TicksPerSecond \div max_burst]

allow_burst(quota, max_burst) == [quota EXCEPT !.max_burst = max_burst]

\* RateLimiter::direct(quota): the GCRA parameters t (emission interval) and
\* tau (burst tolerance); the limiter's state (tat) starts empty.
direct(quota) ==
    [t |-> quota.replenish_1_per, tau |-> quota.replenish_1_per * quota.max_burst]

(***************************************************************************)
(* CoinbaseClientBuilder (lib.rs 263-330).                                 *)
(***************************************************************************)
new == [api_url |-> None, request_timeout |-> None,
        rate_limit |-> None, burst_size |-> None]

api_url(self, value) == [self EXCEPT !.api_url = Some(value)]

request_timeout(self, value) == [self EXCEPT !.request_timeout = Some(value)]

\* (faulty variant: the other fields are not carried over)
rate_limit_dropping_rest(self, value) == [new EXCEPT !.rate_limit = Some(value)]
rate_limit(self, value) == [self EXCEPT !.rate_limit = Some(value)]

burst_size(self, value) == [self EXCEPT !.burst_size = Some(value)]

\* the rate_limiter field of build (lib.rs 319-327)
\* (faulty variant: a limiter built for rate 0)
rate_limiter_ignoring_zero(rate, burst) ==
    Some(direct(IF burst > 0 THEN allow_burst(per_second(IF rate > 0 THEN rate ELSE 1), burst)
                ELSE per_second(IF rate > 0 THEN rate ELSE 1)))
rate_limiter_of(rate, burst) ==
    IF rate > 0
    THEN LET quota == per_second(rate)
         IN  Some(direct(IF burst > 0 THEN allow_burst(quota, burst) ELSE quota))
    ELSE None

build(self) ==
    LET rate == unwrap_or(self.rate_limit, DEFAULT_RATE_LIMIT)
        burst == unwrap_or(self.burst_size, DEFAULT_BURST_SIZE)
    IN  [api_url |-> unwrap_or(self.api_url, COINBASE_API_URL),
         request_timeout |-> unwrap_or(self.request_timeout, DEFAULT_REQUEST_TIMEOUT),
         rate_limiter |-> rate_limiter_of(rate, burst)]

(***************************************************************************)
(* Unsigned 32-bit integers, kept as two 16-bit limbs <<hi, lo>> so that   *)
(* every u32 value, u32::MAX included, is represented exactly.             *)
(***************************************************************************)
Limb == 65536
U32_MAX == <<Limb - 1, Limb - 1>>
as_u32(n) == <<n \div Limb, n % Limb>>

\* the mathematical successor, which needs 33 bits at u32::MAX
succ(x) == IF x[2] = Limb - 1 THEN <<x[1] + 1, 0>> ELSE <<x[1], x[2] + 1>>

\* `trade_id + 1` on u32 (lib.rs 158): at u32::MAX the addition overflows,
\* which panics in a build with overflow checks and wraps to 0 without them.
\* Each outcome tells whether the call panicked and the value computed.
add_one(x) ==
    IF x = U32_MAX
    THEN {[panicked |-> p, value |-> <<0, 0>>] : p \in BOOLEAN}
    ELSE {[panicked |-> FALSE, value |-> succ(x)]}

Digit == <<"0", "1", "2", "3", "4", "5", "6", "7", "8", "9">>

\* ToString for integers: the decimal digits, most significant first
RECURSIVE to_string(_)
to_string(x) ==
    LET rh == x[1] % 10
        cur == rh * Limb + x[2]
        q == <<x[1] \div 10, cur \div 10>>
        last == Digit[(cur % 10) + 1]
    IN  IF q = <<0, 0>> THEN last ELSE to_string(q) \o last

(***************************************************************************)
(* OBLevel (lib.rs 51-63): the discriminant is cast to u8 and printed.     *)
(***************************************************************************)
OBLevel == {"Level1", "Level2", "Level3"}

OBLevel_as_u8(l) ==
    CASE l = "Level1" -> 1
      [] l = "Level2" -> 2
      [] l = "Level3" -> 3

OBLevel_param_tuple(l) == <<"level", to_string(as_u32(OBLevel_as_u8(l)))>>

(***************************************************************************)
(* Granularity (lib.rs 66-80).                                             *)
(***************************************************************************)
Granularity == {"Minute1", "Minute5", "Minute15", "Hour1", "Hour6", "Hour24"}

Granularity_as_u32(g) ==
    CASE g = "Minute1" -> 60
      [] g = "Minute5" -> 300
      [] g = "Minute15" -> 900
      [] g = "Hour1" -> 3600
      [] g = "Hour6" -> 21600
      [] g = "Hour24" -> 86400

param_tuple(g) == <<"granularity", to_string(as_u32(Granularity_as_u32(g)))>>

(***************************************************************************)
(* Endpoint methods: the path and the optional query parameters each one   *)
(* hands to get_json.  A request is the method with its arguments.         *)
(***************************************************************************)
Request(method, product_id, level, trade_id, start_opt, end_opt, granularity_opt) ==
    [method |-> method, product_id |-> product_id, level |-> level,
     trade_id |-> trade_id,
     start_opt |-> start_opt, end_opt |-> end_opt, granularity_opt |-> granularity_opt]

\* the methods that take no argument or the product only (lib.rs 113, 122,
\* 145, 201, 210, 220)
get_products == Request("get_products", None, None, None, None, None, None)
get_product(product_id) ==
    Request("get_product", product_id, None, None, None, None, None)
get_product_ticker(product_id) ==
    Request("get_product_ticker", product_id, None, None, None, None, None)
get_product_24h_stats(product_id) ==
    Request("get_product_24h_stats", product_id, None, None, None, None, None)
get_currencies == Request("get_currencies", None, None, None, None, None, None)
get_time == Request("get_time", None, None, None, None, None, None)

\* get_product_orderbook (lib.rs 135-140): the level is always sent
get_product_orderbook(product_id, level) ==
    Request("get_product_orderbook", product_id, level, None, None, None, None)
get_product_orderbook_params(level) == Some(<<OBLevel_param_tuple(level)>>)

\* get_product_trades (lib.rs 154-163): the set of outcomes of building the
\* parameters; a call that panicked never reaches get_json
get_product_trades_params(trade_id) ==
    IF trade_id = None THEN {[panicked |-> FALSE, params |-> None]}
    ELSE {[panicked |-> n.panicked,
           params |-> Some(<< <<"after", to_string(n.value)>> >>)]
          : n \in add_one(unwrap(trade_id))}

\* get_product_historic_rates (lib.rs 178-190)
\* (faulty variant: an empty list is handed over as Some)
historic_rates_always_some(start_opt, end_opt, granularity_opt) ==
    Some((IF start_opt # None THEN << <<"start", unwrap(start_opt)>> >> ELSE <<>>)
         \o (IF end_opt # None THEN << <<"end", unwrap(end_opt)>> >> ELSE <<>>)
         \o (IF granularity_opt # None THEN <<param_tuple(unwrap(granularity_opt))>> ELSE <<>>))
get_product_historic_rates_params(start_opt, end_opt, granularity_opt) ==
    LET p0 == <<>>
        p1 == IF start_opt # None THEN Append(p0, <<"start", unwrap(start_opt)>>) ELSE p0
        p2 == IF end_opt # None THEN Append(p1, <<"end", unwrap(end_opt)>>) ELSE p1
        params == IF granularity_opt # None
                  THEN Append(p2, param_tuple(unwrap(granularity_opt))) ELSE p2
    IN  IF Len(params) = 0 THEN None ELSE Some(params)

endpoint_of(r) ==
    CASE r.method = "get_products" -> "/products"
      [] r.method = "get_product" -> "/products/" \o r.product_id
      [] r.method = "get_product_orderbook" -> "/products/" \o r.product_id \o "/book"
      [] r.method = "get_product_ticker" -> "/products/" \o r.product_id \o "/ticker"
      [] r.method = "get_product_24h_stats" -> "/products/" \o r.product_id \o "/stats"
      [] r.method = "get_currencies" -> "/currencies"
      [] r.method = "get_time" -> "/time"
      [] r.method = "get_product_trades" -> "/products/" \o r.product_id \o "/trades"
      [] r.method = "get_product_historic_rates" -> "/products/" \o r.product_id \o "/candles"

\* the outcomes of the parameter-building part of the endpoint method
maybe_params_of(r) ==
    CASE r.method \in {"get_products", "get_product", "get_product_ticker",
                       "get_product_24h_stats", "get_currencies", "get_time"} ->
            {[panicked |-> FALSE, params |-> None]}
      [] r.method = "get_product_orderbook" ->
            {[panicked |-> FALSE, params |-> get_product_orderbook_params(r.level)]}
      [] r.method = "get_product_trades" -> get_product_trades_params(r.trade_id)
      [] r.method = "get_product_historic_rates" ->
            {[panicked |-> FALSE,
              params |-> get_product_historic_rates_params(
                             r.start_opt, r.end_opt, r.granularity_opt)]}

(***************************************************************************)
(* Result<T, anyhow::Error>.  An error is its chain of messages, the       *)
(* context added by get_json first and the original cause last.            *)
(***************************************************************************)
Ok(v) == <<"Ok", v>>
Err(chain) == <<"Err", chain>>
is_ok(r) == r # None /\ r[1] = "Ok"
is_err(r) == r # None /\ r[1] = "Err"

\* base URLs that Url::parse accepts: they carry a scheme and a host
AbsoluteUrls == {COINBASE_API_URL, "https://api.google.com"}
\* a base without a scheme: Url::parse fails (relative URL without a base)
SchemelessUrl == "api.pro.coinbase.com"

\* URL assembly of get_json (lib.rs 228-238)
url_of(base, endpoint, params) ==
    IF base \in AbsoluteUrls
    THEN Ok([url_str |-> base \o endpoint, query |-> params])
    ELSE IF params # None
         THEN Err(<<"failed to parse url string with params", "url::ParseError">>)
         ELSE Err(<<"failed to parse url string", "url::ParseError">>)

\* errors of the send and text steps of get_json (lib.rs 244-248)
\* (faulty variant: the cause of a send failure is dropped)
send_error_untagged(kind) == Err(<<"failure while sending request", "reqwest::Error">>)
send_error(kind) == Err(<<"failure while sending request", kind>>)
text_error(kind) == Err(<<"failure while decoding response to text", kind>>)

\* deserialize (lib.rs 257-259): serde_json::from_str on the body text
JsonTexts == {"{\"epoch\":1}"}
BodyTexts == JsonTexts \cup {"<html>"}
deserialize(json) ==
    IF json \in JsonTexts THEN Ok(<<"Value", json>>) ELSE Err(<<"serde_json::Error">>)

(***************************************************************************)
(* The limiter's admission test (governor's GCRA, which until_ready of     *)
(* lib.rs 241 polls): tat is the theoretical arrival time kept by the      *)
(* limiter, empty until the first test; a cell conforms at time t0 when    *)
(* t0 >= tat - tau, and then tat advances by t from max(tat, t0).          *)
(***************************************************************************)
test_and_update(gcra, tat0, t0) ==
    LET tat1 == unwrap_or(tat0, t0 + gcra.t)
        earliest_time == IF tat1 > gcra.tau THEN tat1 - gcra.tau ELSE 0
    IN  [allowed |-> t0 >= earliest_time,
         next |-> (IF tat1 > t0 THEN tat1 ELSE t0) + gcra.t]

(***************************************************************************)
(* State.                                                                  *)
(***************************************************************************)
VARIABLES
    builder,   \* the CoinbaseClientBuilder value
    history,   \* the setter calls made on the builder, in order
    client,    \* None before build, then Some(CoinbasePublicClient)
    now,       \* the limiter's clock, in ticks since the client was built
    tat,       \* the limiter's state: None until the first admission test
    req,       \* per call: the endpoint request the caller makes (None: no call)
    pc,        \* per call: where the call stands
    params,    \* per call: the Option<Params> handed to get_json
    url,       \* per call: the assembled Url (None before assembly)
    tokens,    \* per call: cells the limiter granted to it
    gets,      \* per call: GET requests it issued
    result,    \* per call: None, the Result of get_json, then of deserialize
    fault      \* per call: the step whose failure ended the call (None: none)

vars == <<builder, history, client, now, tat, req, pc, params, url, tokens, gets,
          result, fault>>

builder_vars == <<builder, history, client>>
call_vars == <<req, pc, params, url, tokens, gets, result, fault>>

(***************************************************************************)
(* Builder steps.                                                          *)
(***************************************************************************)
\* values the callers pass to the setters
UrlValues == {"https://api.google.com", SchemelessUrl}
TimeoutValues == {5}
RateValues == {0, 1, 2}
BurstValues == {0, 1, 2}

apply_setter(self, call) ==
    CASE call[1] = "api_url" -> api_url(self, call[2])
      [] call[1] = "request_timeout" -> request_timeout(self, call[2])
      [] call[1] = "rate_limit" -> rate_limit(self, call[2])
      [] call[1] = "burst_size" -> burst_size(self, call[2])

RECURSIVE apply_all(_, _)
apply_all(self, calls) ==
    IF calls = <<>> THEN self
    ELSE apply_all(apply_setter(self, Head(calls)), Tail(calls))

Set(call) ==
    /\ client = None
    /\ Len(history) < MaxSetterCalls
    /\ builder' = apply_setter(builder, call)
    /\ history' = Append(history, call)
    /\ UNCHANGED <<client, now, tat, call_vars>>

SetApiUrl == \E v \in UrlValues : Set(<<"api_url", v>>)
SetRequestTimeout == \E v \in TimeoutValues : Set(<<"request_timeout", v>>)
SetRateLimit == \E v \in RateValues : Set(<<"rate_limit", v>>)
SetBurstSize == \E v \in BurstValues : Set(<<"burst_size", v>>)

Build ==
    /\ client = None
    /\ client' = Some(build(builder))
    /\ UNCHANGED <<builder, history, now, tat, call_vars>>

(***************************************************************************)
(* Steps of one endpoint call c.  A call is an async fn: it runs without   *)
(* interruption from one suspension to the next, and other calls run only  *)
(* while it is suspended.  It can suspend in until_ready().await (when no  *)
(* cell conforms), in send().await (the request is issued, its outcome     *)
(* open) and in text().await (the body is being read); get_json(..).await  *)
(* and deserialize(..).await never suspend by themselves.  There is one    *)
(* action per run between two suspensions:                                 *)
(*   start    the call has been made and not yet run                       *)
(*   waiting  suspended in until_ready: no token yet                       *)
(*   send     suspended in send: the GET is issued, the outcome is open    *)
(*   body     suspended in text: the response came, the body is being read *)
(*   done     the call returned its Result;  panic  the call panicked      *)
(***************************************************************************)
self_client == unwrap(client)

\* get_json from the limiter test to the issue of the request (lib.rs
\* 240-247): without a limiter the request is issued at once; with one,
\* until_ready tests the limiter, and the request is issued in the same run
\* when the cell conforms; otherwise the call is suspended
admit_and_request(c) ==
    IF self_client.rate_limiter = None
    THEN /\ gets' = [gets EXCEPT ![c] = @ + 1]
         /\ pc' = [pc EXCEPT ![c] = "send"]
         /\ UNCHANGED <<tat, tokens>>
    ELSE LET d == test_and_update(unwrap(self_client.rate_limiter), tat, now)
         IN  IF d.allowed
             THEN /\ tat' = Some(d.next)
                  /\ tokens' = [tokens EXCEPT ![c] = @ + 1]
                  /\ gets' = [gets EXCEPT ![c] = @ + 1]
                  /\ pc' = [pc EXCEPT ![c] = "send"]
             ELSE /\ pc' = [pc EXCEPT ![c] = "waiting"]
                  /\ UNCHANGED <<tat, tokens, gets>>

\* the first run of the endpoint method (lib.rs 113-224, 228-247): the
\* parameters are built, the URL is assembled, and get_json goes on to the
\* limiter and the request without a suspension in between
\* (faulty variant: the error of URL assembly is recorded but the call goes
\* on to admission instead of returning)
endpoint_call_not_returning(c) ==
    /\ client # None
    /\ req[c] # None
    /\ pc[c] = "start"
    /\ \E o \in maybe_params_of(req[c]) :
          IF o.panicked
          THEN /\ pc' = [pc EXCEPT ![c] = "panic"]
               /\ UNCHANGED <<params, url, result, fault, tat, tokens, gets>>
          ELSE LET u == url_of(self_client.api_url, endpoint_of(req[c]), o.params)
               IN  /\ params' = [params EXCEPT ![c] = o.params]
                   /\ admit_and_request(c)
                   /\ IF is_ok(u)
                      THEN /\ url' = [url EXCEPT ![c] = Some(u[2])]
                           /\ UNCHANGED <<result, fault>>
                      ELSE /\ result' = [result EXCEPT ![c] = u]
                           /\ fault' = [fault EXCEPT ![c] = Some("url")]
                           /\ UNCHANGED url
    /\ UNCHANGED <<builder_vars, now, req>>
endpoint_call(c) ==
    /\ client # None
    /\ req[c] # None
    /\ pc[c] = "start"
    /\ \E o \in maybe_params_of(req[c]) :
          IF o.panicked
          THEN /\ pc' = [pc EXCEPT ![c] = "panic"]
               /\ UNCHANGED <<params, url, result, fault, tat, tokens, gets>>
          ELSE LET u == url_of(self_client.api_url, endpoint_of(req[c]), o.params)
               IN  /\ params' = [params EXCEPT ![c] = o.params]
                   /\ IF is_ok(u)
                      THEN /\ url' = [url EXCEPT ![c] = Some(u[2])]
                           /\ admit_and_request(c)
                           /\ UNCHANGED <<result, fault>>
                      ELSE /\ result' = [result EXCEPT ![c] = u]
                           /\ fault' = [fault EXCEPT ![c] = Some("url")]
                           /\ pc' = [pc EXCEPT ![c] = "done"]
                           /\ UNCHANGED <<url, tat, tokens, gets>>
    /\ UNCHANGED <<builder_vars, now, req>>

\* a call suspended in until_ready is woken (lib.rs 240-247): it tests the
\* limiter again, issues its request when the cell conforms and is
\* suspended again otherwise
\* (faulty variant: a woken call that finds no cell is turned away)
until_ready_rejecting(c) ==
    /\ pc[c] = "waiting"
    /\ LET d == test_and_update(unwrap(self_client.rate_limiter), tat, now)
       IN  IF d.allowed
           THEN /\ tat' = Some(d.next)
                /\ tokens' = [tokens EXCEPT ![c] = @ + 1]
                /\ gets' = [gets EXCEPT ![c] = @ + 1]
                /\ pc' = [pc EXCEPT ![c] = "send"]
                /\ UNCHANGED <<result, fault>>
           ELSE /\ pc' = [pc EXCEPT ![c] = "done"]
                /\ result' = [result EXCEPT ![c] = Err(<<"rate limited">>)]
                /\ fault' = [fault EXCEPT ![c] = Some("admission")]
                /\ UNCHANGED <<tat, tokens, gets>>
    /\ UNCHANGED <<builder_vars, now, req, params, url>>
until_ready(c) ==
    /\ pc[c] = "waiting"
    /\ admit_and_request(c)
    /\ UNCHANGED <<builder_vars, now, req, params, url, result, fault>>

\* the outcome of send().await (lib.rs 244-248): the request, issued with
\* the timeout as its deadline, brings a response, on which text() is called
\* in the same run, or fails to connect, or times out
SendOutcomes == {"response", "reqwest::Error(connect)", "reqwest::Error(timeout)"}

\* (faulty variants: a failed request is issued again; a failed send returns
\* its cell to the limiter)
send_retrying(c) ==
    /\ pc[c] = "send"
    /\ \E o \in SendOutcomes :
          IF o = "response"
          THEN /\ pc' = [pc EXCEPT ![c] = "body"]
               /\ UNCHANGED gets
          ELSE /\ gets' = [gets EXCEPT ![c] = @ + 1]
               /\ UNCHANGED pc
    /\ UNCHANGED <<builder_vars, now, tat, req, params, url, tokens, result, fault>>
send_refunding(c) ==
    /\ pc[c] = "send"
    /\ \E o \in SendOutcomes :
          IF o = "response"
          THEN /\ pc' = [pc EXCEPT ![c] = "body"]
               /\ UNCHANGED <<result, fault, tat>>
          ELSE /\ result' = [result EXCEPT ![c] = send_error(o)]
               /\ fault' = [fault EXCEPT ![c] = Some(o)]
               /\ pc' = [pc EXCEPT ![c] = "done"]
               /\ tat' = IF tat = None THEN None
                         ELSE Some(unwrap(tat) - unwrap(self_client.rate_limiter).t)
    /\ UNCHANGED <<builder_vars, now, req, params, url, tokens, gets>>
send(c) ==
    /\ pc[c] = "send"
    /\ \E o \in SendOutcomes :
          IF o = "response"
          THEN /\ pc' = [pc EXCEPT ![c] = "body"]
               /\ UNCHANGED <<result, fault>>
          ELSE /\ result' = [result EXCEPT ![c] = send_error(o)]
               /\ fault' = [fault EXCEPT ![c] = Some(o)]
               /\ pc' = [pc EXCEPT ![c] = "done"]
    /\ UNCHANGED <<builder_vars, now, tat, req, params, url, tokens, gets>>

\* the outcome of text().await (lib.rs 248-250) and the rest of the endpoint
\* method: the whole body was read as text, get_json returns it and the
\* method returns self.deserialize(&json) in the same run; or the read fails
\* (undecodable bytes, or the deadline passing during the read) and the
\* method returns that error
TextFailures == {"reqwest::Error(decode)", "reqwest::Error(timeout)"}

text(c) ==
    /\ pc[c] = "body"
    /\ \/ \E body \in BodyTexts :
             /\ result' = [result EXCEPT ![c] = deserialize(body)]
             /\ fault' = [fault EXCEPT ![c] =
                             IF is_ok(deserialize(body)) THEN None ELSE Some("parse")]
       \/ \E o \in TextFailures :
             /\ result' = [result EXCEPT ![c] = text_error(o)]
             /\ fault' = [fault EXCEPT ![c] = Some("text")]
    /\ pc' = [pc EXCEPT ![c] = "done"]
    /\ UNCHANGED <<builder_vars, now, tat, req, params, url, tokens, gets>>

\* The clock advances while the client has a limiter and some call has yet
\* to be made or admitted (no other step reads it).  now counts the ticks since
\* build up to MaxTime; past MaxTime the origin of time moves along with the
\* clock, so that now stays and tat is one tick nearer.
tick ==
    /\ client # None
    /\ self_client.rate_limiter # None
    /\ \E c \in Calls : req[c] # None /\ pc[c] \in {"start", "waiting"}
    /\ IF now < MaxTime
       THEN /\ now' = now + 1
            /\ UNCHANGED tat
       ELSE /\ UNCHANGED now
            /\ tat' = IF tat = None \/ tat = Some(0) THEN tat ELSE Some(unwrap(tat) - 1)
    /\ UNCHANGED <<builder_vars, call_vars>>

(***************************************************************************)
(* Specifications.                                                         *)
(***************************************************************************)
NoCalls ==
    /\ now = 0
    /\ tat = None
    /\ pc = [c \in Calls |-> "start"]
    /\ params = [c \in Calls |-> None]
    /\ url = [c \in Calls |-> None]
    /\ tokens = [c \in Calls |-> 0]
    /\ gets = [c \in Calls |-> 0]
    /\ result = [c \in Calls |-> None]
    /\ fault = [c \in Calls |-> None]

\* SpecBuild: one builder, from new() through the setters to build
InitBuild ==
    /\ builder = new
    /\ history = <<>>
    /\ client = None
    /\ req = [c \in Calls |-> None]
    /\ NoCalls

NextBuild == SetApiUrl \/ SetRequestTimeout \/ SetRateLimit \/ SetBurstSize \/ Build

SpecBuild == InitBuild /\ [][NextBuild]_vars

\* Spec: one client right after build, shared by MaxCalls concurrent calls.
\* The calls are get_time calls; every endpoint method enters get_json in the
\* same way, and SpecEndpoint runs each of them.
\* The client is built from a builder on which rate_limit, burst_size and
\* api_url were each set at most once.
OneOrNone(field, values) == {<<>>} \cup {<< <<field, v>> >> : v \in values}

FetchHistories ==
    {r \o b \o u : r \in OneOrNone("rate_limit", RateValues),
                   b \in OneOrNone("burst_size", BurstValues),
                   u \in OneOrNone("api_url", {SchemelessUrl})}

Built(h) ==
    /\ history = h
    /\ builder = apply_all(new, h)
    /\ client = Some(build(apply_all(new, h)))

Init ==
    /\ \E h \in FetchHistories : Built(h)
    /\ req = [c \in Calls |-> get_time]
    /\ NoCalls

Next ==
    \/ \E c \in Calls : endpoint_call(c)
    \/ \E c \in Calls : until_ready(c)
    \/ \E c \in Calls : send(c)
    \/ \E c \in Calls : text(c)
    \/ tick

Spec == Init /\ [][Next]_vars

\* FairSpec: Spec with the scheduling the runtime provides: time passes, and
\* a call suspended in until_ready is woken and polled again
FairSpec ==
    /\ Spec
    /\ WF_vars(tick)
    /\ \A c \in Calls : WF_vars(until_ready(c))

\* SpecEndpoint: one call of one endpoint method, with arguments drawn from
\* EndpointRequests, on a client built with the defaults or with a base URL
\* that has no scheme.  The bucket of such a client is full, so the call is
\* never suspended in until_ready.
Cursors == {None, Some(<<0, 0>>), Some(<<0, 42>>), Some(<<0, Limb - 1>>),
            Some(<<1, 0>>), Some(<<Limb - 1, Limb - 2>>), Some(U32_MAX)}
Timestamps == {None, Some("2022-01-01T00:00:00Z")}
GranularityOpts == {None} \cup {Some(g) : g \in Granularity}

EndpointRequests ==
    {get_products, get_product("eth-usd"), get_product_ticker("eth-usd"),
     get_product_24h_stats("eth-usd"), get_currencies, get_time}
    \cup {get_product_orderbook("eth-usd", l) : l \in OBLevel}
    \cup {Request("get_product_trades", "eth-usd", None, t, None, None, None) : t \in Cursors}
    \cup {Request("get_product_historic_rates", "eth-usd", None, None, s, e, g) :
            s \in Timestamps, e \in Timestamps, g \in GranularityOpts}

InitEndpoint ==
    /\ \E h \in OneOrNone("api_url", {SchemelessUrl}) : Built(h)
    /\ \E r \in EndpointRequests : req = [c \in Calls |-> IF c = 1 THEN r ELSE None]
    /\ NoCalls

NextEndpoint ==
    \/ \E c \in Calls : endpoint_call(c)
    \/ \E c \in Calls : send(c)
    \/ \E c \in Calls : text(c)
    \/ tick

SpecEndpoint == InitEndpoint /\ [][NextEndpoint]_vars

(***************************************************************************)
(* Properties.  The configuration a client was built with is read from the *)
(* history of setter calls: the value last supplied, or the default.       *)
(***************************************************************************)
LastSupplied(field, default) ==
    LET at == {i \in 1..Len(history) : history[i][1] = field}
        last == CHOOSE i \in at : \A j \in at : j <= i
    IN  IF at = {} THEN default ELSE history[last][2]

R == LastSupplied("rate_limit", DEFAULT_RATE_LIMIT)
B == LastSupplied("burst_size", DEFAULT_BURST_SIZE)

\* the refill interval 1/R, in ticks
RefillInterval == TicksPerSecond \div R

RECURSIVE SumOver(_, _)
SumOver(f, S) ==
    IF S = {} THEN 0
    ELSE LET c == CHOOSE x \in S : TRUE IN f[c] + SumOver(f, S \ {c})

\* the number of calls admitted by the limiter so far
Admitted == SumOver(tokens, Calls)

HasLimiter == client # None /\ self_client.rate_limiter # None

\* C1: under every interleaving the calls admitted so far never exceed the
\* bucket capacity plus the tokens refilled so far (one per refill interval
\* 1/R), the capacity being B, and 1 when B = 0: of more calls than that
\* made at once, the one beyond the capacity is admitted only after a refill.
C1_AdmittedWithinBurst ==
    HasLimiter =>
        (Admitted - (IF B > 1 THEN B ELSE 1)) * RefillInterval <= now

\* C2: for R > 0 build constructs a bucket of capacity max(B, 1) refilled
\* every 1/R; with B = 0 the bucket holds exactly one token.
C2_CapacityMaxBurstOne ==
    (client # None /\ R > 0) =>
        self_client.rate_limiter =
            Some([t |-> RefillInterval,
                  tau |-> RefillInterval * (IF B > 1 THEN B ELSE 1)])

\* C3: with rate limit 0 the client has no limiter whatever the burst, no
\* call ever waits or takes a token, and no limiter state comes to exist.
C3_NoLimiterNoWaiting ==
    (client # None /\ R = 0) =>
        /\ self_client.rate_limiter = None
        /\ tat = None
        /\ \A c \in Calls : pc[c] # "waiting" /\ tokens[c] = 0

\* rate 0 with a burst set: all the calls are in dispatch at once
C3_Witness ==
    /\ client # None
    /\ R = 0
    /\ \E i \in 1..Len(history) : history[i][1] = "burst_size"
    /\ \A c \in Calls : pc[c] = "send"

\* C4: build gives every field the value last supplied, or its default when
\* it was never set, in whatever order the setters were called; with no
\* setter called the client is exactly the default one, limiter present.
C4_BuildResolvesFields ==
    client # None =>
        /\ self_client.api_url = LastSupplied("api_url", "https://api.pro.coinbase.com")
        /\ self_client.request_timeout = LastSupplied("request_timeout", 30)
        /\ (self_client.rate_limiter # None) = (LastSupplied("rate_limit", 3) > 0)
        /\ self_client.rate_limiter # None =>
              LET gcra == unwrap(self_client.rate_limiter)
                  burst == LastSupplied("burst_size", 6)
              IN  /\ gcra.t = TicksPerSecond \div LastSupplied("rate_limit", 3)
                  /\ burst > 0 => gcra.tau = burst * gcra.t
        /\ history = <<>> =>
              client = Some([api_url |-> "https://api.pro.coinbase.com",
                             request_timeout |-> 30,
                             rate_limiter |-> Some([t |-> TicksPerSecond \div 3,
                                                    tau |-> 6 * (TicksPerSecond \div 3)])])

\* built after two setters of different fields, the rate limit set last
C4_Witness ==
    /\ client # None
    /\ Len(history) = 2
    /\ history[1][1] = "burst_size"
    /\ history[2][1] = "rate_limit"
    /\ history[2][2] > 0

\* the failures that end a call after it was admitted
FailedAfterAdmission(c) ==
    /\ pc[c] = "done"
    /\ fault[c] # None
    /\ fault[c] # Some("url")

\* C5: a step in which an admitted call fails (transport error, timeout, body
\* decode error, parse error) leaves the limiter's state, every call's
\* tokens and the client as they are: the token is not returned, exactly as
\* when the call succeeds, and later calls meet the same limiter.
C5_FailureKeepsToken ==
    [][\A c \in Calls :
          (pc[c] \in {"send", "body"} /\ pc'[c] = "done")
              => (tat' = tat /\ tokens' = tokens /\ client' = client)]_vars

\* one call failed after taking the only token and the other call is made
\* to wait for the refill
C5_Witness ==
    /\ HasLimiter
    /\ \E c, d \in Calls :
          /\ FailedAfterAdmission(c)
          /\ tokens[c] = 1
          /\ pc[d] = "waiting"
          /\ now > 0

\* C6: a call is one pass: over its lifetime it takes at most one token and
\* issues at most one GET request, and with a limiter a call that issued a
\* request took exactly one token.
C6_SinglePass ==
    \A c \in Calls :
        /\ tokens[c] <= 1
        /\ gets[c] <= 1
        /\ (HasLimiter /\ gets[c] = 1) => tokens[c] = 1

\* a call that failed in dispatch: one token, one request, no second try
C6_Witness ==
    /\ HasLimiter
    /\ \E c \in Calls :
          /\ pc[c] = "done"
          /\ fault[c] = Some("reqwest::Error(timeout)")
          /\ tokens[c] = 1
          /\ gets[c] = 1

\* C7: with a limiter (R > 0), time passing and waiting calls being woken,
\* every call that passed URL assembly is eventually admitted and has its
\* request issued; none waits for ever, none is turned away.
C7_EventuallyAdmitted ==
    \A c \in Calls :
        (HasLimiter /\ url[c] # None) ~> (tokens[c] = 1 /\ gets[c] = 1)

\* every call was admitted by a bucket smaller than the number of calls
C7_Witness ==
    /\ HasLimiter
    /\ unwrap(self_client.rate_limiter).tau
          < MaxCalls * unwrap(self_client.rate_limiter).t
    /\ \A c \in Calls : tokens[c] = 1 /\ pc[c] = "send"

IsTrades(c) == req[c] # None /\ req[c].method = "get_product_trades"
IsHistoricRates(c) == req[c] # None /\ req[c].method = "get_product_historic_rates"

\* C8: for every u32 cursor c, get_product_trades sends exactly the pair
\* ("after", decimal text of c + 1) and the call goes on to completion
\* (it never panics); with no cursor it sends no parameters.
C8_CursorPlusOne ==
    \A c \in Calls :
        (IsTrades(c) /\ pc[c] # "start") =>
            /\ pc[c] # "panic"
            /\ params[c] =
                  IF req[c].trade_id = None THEN None
                  ELSE Some(<< <<"after", to_string(succ(unwrap(req[c].trade_id)))>> >>)

\* the decimal text of each granularity's number of seconds
Seconds(g) ==
    CASE g = "Minute1" -> "60"
      [] g = "Minute5" -> "300"
      [] g = "Minute15" -> "900"
      [] g = "Hour1" -> "3600"
      [] g = "Hour6" -> "21600"
      [] g = "Hour24" -> "86400"

\* C9: get_product_historic_rates sends one pair per supplied argument, in
\* the order start, end, granularity, the granularity as its seconds; with
\* no argument supplied it sends no parameters at all (None, not Some of an
\* empty list).
C9_HistoricRatesParams ==
    \A c \in Calls :
        (IsHistoricRates(c) /\ pc[c] # "start") =>
            LET r == req[c]
                n == (IF r.start_opt # None THEN 1 ELSE 0)
                     + (IF r.end_opt # None THEN 1 ELSE 0)
                     + (IF r.granularity_opt # None THEN 1 ELSE 0)
                ps == unwrap(params[c])
                gi == n
                ei == IF r.granularity_opt # None THEN n - 1 ELSE n
            IN  IF n = 0 THEN params[c] = None
                ELSE /\ params[c] # None
                     /\ Len(ps) = n
                     /\ r.start_opt # None => ps[1] = <<"start", unwrap(r.start_opt)>>
                     /\ r.end_opt # None => ps[ei] = <<"end", unwrap(r.end_opt)>>
                     /\ r.granularity_opt # None =>
                           ps[gi] = <<"granularity", Seconds(unwrap(r.granularity_opt))>>

\* a finished call that supplied only the granularity Hour1
C9_Witness ==
    \E c \in Calls :
        /\ IsHistoricRates(c)
        /\ req[c].start_opt = None /\ req[c].end_opt = None
        /\ pc[c] = "done"
        /\ params[c] = Some(<< <<"granularity", "3600">> >>)

\* the step an error value tells of: read from its context and its cause
StageOf(chain) ==
    CASE chain[1] \in {"failed to parse url string",
                       "failed to parse url string with params"} -> "url"
      [] chain[1] = "failure while sending request" -> chain[2]
      [] chain[1] = "failure while decoding response to text" -> "text"
      [] chain[1] = "serde_json::Error" -> "parse"
      [] OTHER -> "unknown"

\* C10: a finished call whose step failed returns an error that tells which
\* step it was (URL assembly, dispatch with timeout told from connection
\* failure, body decoding, parsing), never a success or a default value;
\* a call with no failed step returns a success.
C10_ErrorTellsStage ==
    \A c \in Calls :
        pc[c] = "done" =>
            IF fault[c] = None THEN is_ok(result[c])
            ELSE /\ is_err(result[c])
                 /\ StageOf(result[c][2]) = unwrap(fault[c])

\* one call timed out in dispatch and the other failed to connect
C10_Witness ==
    \E c, d \in Calls :
        /\ pc[c] = "done" /\ fault[c] = Some("reqwest::Error(timeout)")
        /\ pc[d] = "done" /\ fault[d] = Some("reqwest::Error(connect)")

\* the places a run of a call may lead to
StepOrder ==
    {<<"start", "panic">>, <<"start", "done">>, <<"start", "waiting">>,
     <<"start", "send">>, <<"waiting", "send">>,
     <<"send", "body">>, <<"send", "done">>,
     <<"body", "done">>}

\* what holds of a call at each place, given the steps that came before
StepsBefore(c) ==
    \* URL assembly failed: no token, no request, nothing else was done
    /\ fault[c] = Some("url") =>
          /\ pc[c] = "done" /\ is_err(result[c])
          /\ url[c] = None /\ tokens[c] = 0 /\ gets[c] = 0
    \* admission and everything later come after a successful URL assembly
    /\ pc[c] \in {"waiting", "send", "body"} =>
          url[c] # None /\ fault[c] = None /\ result[c] = None
    /\ (tokens[c] > 0 \/ gets[c] > 0) => url[c] # None
    \* no request before admission, and with a limiter not before the token
    /\ pc[c] = "waiting" => (HasLimiter /\ tokens[c] = 0 /\ gets[c] = 0)
    /\ (HasLimiter /\ gets[c] > 0) => tokens[c] > 0
    \* the outcome and the body are awaited only with the request issued
    /\ pc[c] \in {"send", "body"} => gets[c] = 1
    /\ (fault[c] = Some("text") \/ fault[c] = Some("parse")) => gets[c] = 1
    /\ (pc[c] = "done" /\ fault[c] = None) =>
          /\ gets[c] = 1 /\ url[c] # None
          /\ is_ok(result[c]) /\ result[c][2] = <<"Value", "{\"epoch\":1}">>

\* what a run of a call may do, given the place it starts from
StepAllowed(c) ==
    /\ pc'[c] # pc[c] => <<pc[c], pc'[c]>> \in StepOrder
    \* a token is taken only by a call that has none, in a run that also
    \* issues its request
    /\ tokens'[c] # tokens[c] =>
          /\ pc[c] \in {"start", "waiting"} /\ url'[c] # None
          /\ gets'[c] = gets[c] + 1
    \* a request is issued only after URL assembly and before any outcome
    /\ gets'[c] # gets[c] =>
          /\ pc[c] \in {"start", "waiting"} /\ pc'[c] = "send"
          /\ url'[c] # None
    \* parsing is attempted only on a body that was received in full, and
    \* a failed read returns its own error
    /\ (pc[c] = "body" /\ pc'[c] = "done") =>
          \/ \E body \in BodyTexts : result'[c] = deserialize(body)
          \/ fault'[c] = Some("text") /\ result'[c][2][1] =
                                            "failure while decoding response to text"
    /\ (result'[c] # result[c] /\ is_ok(result'[c])) => pc[c] = "body"

\* C11: the steps of a call run in the order URL assembly, admission,
\* dispatch, body read, parse, each only after the earlier ones succeeded: a
\* call whose URL assembly fails returns its error without waiting, taking a
\* token or issuing a request; no request is issued before the token is
\* granted; parsing is attempted only on a fully received body.
C11_StepsInOrder ==
    /\ [](\A c \in Calls : StepsBefore(c))
    /\ [][\A c \in Calls : StepAllowed(c)]_vars

\* on a client with a limiter every call failed in URL assembly: the
\* limiter was never tested and nothing was sent
C11_Witness ==
    /\ HasLimiter
    /\ tat = None
    /\ \A c \in Calls :
          /\ pc[c] = "done" /\ fault[c] = Some("url")
          /\ tokens[c] = 0 /\ gets[c] = 0

====
